---- MODULE Spec2Model ----
(***************************************************************************)
(* Model of autopacmen/submodules/get_protein_mass_mapping.py:             *)
(* get_protein_mass_mapping groups the model's genes by UniProt accession, *)
(* resolves each accession to a mass (on-disk cache first, UniProt REST    *)
(* API otherwise), fans the masses out to the gene ids and writes a JSON.  *)
(* The process may be terminated between steps and the workflow re-run on  *)
(* the same model against the cache the earlier run left behind.           *)
(***************************************************************************)
EXTENDS Integers, Sequences, FiniteSets, TLC

(* ------------------------------ bounds --------------------------------- *)
\* number of gene records of the model
MaxGenes == 3

\* UniProt accessions the genes may be annotated with / the cache may hold
Accessions == {"P1", "P2"}
\* masses the remote service or the cache may hold
Masses == {10, 55}

(* -------------------- python dict (insertion ordered) ------------------ *)
\* a dict is the sequence of its <<key, value>> items in insertion order
DictKeys(d) == [i \in 1..Len(d) |-> d[i][1]]
DictKeySet(d) == {d[i][1] : i \in 1..Len(d)}
DictHas(d, k) == \E i \in 1..Len(d) : d[i][1] = k
DictGet(d, k) == d[CHOOSE i \in 1..Len(d) : d[i][1] = k][2]
DictSet(d, k, v) ==
    IF DictHas(d, k)
    THEN [i \in 1..Len(d) |-> IF d[i][1] = k THEN <<k, v>> ELSE d[i]]
    ELSE Append(d, <<k, v>>)

(* ------------------------------ gene records --------------------------- *)
\* gene.annotation without the "uniprot" key
NoAnnotation == <<>>
\* gene.annotation["uniprot"] = a
Annotated(a) == <<a>>
\* gene ids are unique inside a cobra model (model.genes is a DictList)
GeneId(i) == i
GeneIds == 1..MaxGenes
GeneRecords == [GeneIds -> {NoAnnotation} \cup {Annotated(a) : a \in Accessions}]

(* ------------------------------ cache files ---------------------------- *)
\* no file of that name in ./_cache/uniprot/
Absent == <<>>
\* file content produced by pickle_write(path, v)
Pickled(v) == <<"pickle", v>>
\* file content that pickle cannot deserialize
Corrupt == <<"garbage">>

pickle_write(v) == Pickled(v)
pickle_load(rec) == rec[2]
\* get_files(folder): the names of the files in the folder
get_files(c) == {a \in Accessions : c[a] # Absent}

HealthyCaches == [Accessions -> {Absent} \cup {Pickled(m) : m \in Masses}]
AnyCaches == [Accessions -> {Absent, Corrupt} \cup {Pickled(m) : m \in Masses}]

(* ------------------------------ remote service ------------------------- *)
\* what requests.get(url) does for one accession:
\*   conn  FALSE: requests.get raises (network error)
\*   ok    uniprot_response.ok
\*   json  TRUE: the body is JSON text
\*   mass  <<"num", m>>: parsed["sequence"]["mass"] is the number m;
\*         <<>>: the key is missing or its value is no number
NetErr == [conn |-> FALSE, ok |-> FALSE, json |-> FALSE, mass |-> <<>>]
HttpErr == [conn |-> TRUE, ok |-> FALSE, json |-> TRUE, mass |-> <<>>]
BadJson == [conn |-> TRUE, ok |-> TRUE, json |-> FALSE, mass |-> <<>>]
NoMassField == [conn |-> TRUE, ok |-> TRUE, json |-> TRUE, mass |-> <<>>]
Found(m) == [conn |-> TRUE, ok |-> TRUE, json |-> TRUE, mass |-> <<"num", m>>]
Responses == {NetErr, HttpErr, BadJson, NoMassField} \cup {Found(m) : m \in Masses}

\* what the service has for an accession: <<m>> the mass m, <<>> nothing, and
\* then each request for it fails in one way or another
Answers == {<<>>} \cup {<<m>> : m \in Masses}
Services == [Accessions -> Answers]
ResponsesFor(answer) ==
    IF answer = <<>> THEN {NetErr, HttpErr, BadJson, NoMassField}
    ELSE {Found(answer[1])}

\* TryFetch reading the mass with a default of 0 when the field is missing
TryFetchDefaultMass(resp) ==
    IF ~resp.conn THEN <<>>
    ELSE IF ~resp.ok THEN <<>>
    ELSE IF ~resp.json THEN <<>>
    ELSE IF Len(resp.mass) # 2 THEN <<0>>
    ELSE <<resp.mass[2]>>

\* the body of the try block, lines 100-112: <<>> when an exception was
\* swallowed, <<mass>> when the assignment of line 109 happened
TryFetch(resp) ==
    IF ~resp.conn THEN <<>>
    ELSE IF ~resp.ok THEN <<>>
    ELSE IF ~resp.json THEN <<>>
    ELSE IF Len(resp.mass) # 2 THEN <<>>
    ELSE <<resp.mass[2]>>

(* ------------------------------ state ---------------------------------- *)
VARIABLES
    genes,          \* model.genes: gene id -> annotation           (input)
    remote,         \* the UniProt service: accession -> answer     (environment)
    cache,          \* ./_cache/uniprot/: accession -> file content (disk)
    outfile,        \* <basepath>_protein_id_mass_mapping.json: <<>> while the file
                    \* does not exist, <<d>> once the dict d was written to it (disk)
    pc,             \* position of the running process
    uniprot_id_protein_id_mapping,      \* dict accession -> list of gene ids
    uniprot_id_protein_mass_mapping,    \* dict accession -> mass
    protein_id_mass_mapping,            \* dict gene id -> mass
    cache_files,    \* listing of the cache folder taken at line 82
    uniprot_ids,    \* list(uniprot_id_protein_id_mapping.keys())
    idx,            \* position of the for loop of line 86 in uniprot_ids
    events,         \* what this run did to the outside world, in order
    cache0,         \* the cache as it was when this run started
    prev,           \* summary of the previous run
    changed         \* the service answers differently than during the previous run

vars == <<genes, remote, cache, outfile, pc, uniprot_id_protein_id_mapping,
          uniprot_id_protein_mass_mapping, protein_id_mass_mapping,
          cache_files, uniprot_ids, idx, events, cache0, prev, changed>>

locals == <<uniprot_id_protein_id_mapping, uniprot_id_protein_mass_mapping,
            protein_id_mass_mapping, cache_files, uniprot_ids, idx>>
env == <<genes, remote, changed>>

Finished == {"done", "killed", "aborted"}
NoRun == [status |-> "none", cache0 |-> [a \in Accessions |-> Absent], out |-> <<>>,
          gets |-> 0]

(* ------------------------------ grouping ------------------------------- *)
\* GroupFrom with line 69 replacing the list instead of appending to it
RECURSIVE GroupFromOverwrite(_, _, _)
GroupFromOverwrite(gs, i, d) ==
    IF i > MaxGenes THEN d
    ELSE IF gs[i] = NoAnnotation THEN GroupFromOverwrite(gs, i + 1, d)
    ELSE GroupFromOverwrite(gs, i + 1, DictSet(d, gs[i][1], <<GeneId(i)>>))

\* lines 62-71, the loop over model.genes from gene i on
RECURSIVE GroupFrom(_, _, _)
GroupFrom(gs, i, d) ==
    IF i > MaxGenes THEN d
    ELSE IF gs[i] = NoAnnotation THEN GroupFrom(gs, i + 1, d)
    ELSE LET uniprot_id == gs[i][1] IN
         IF DictHas(d, uniprot_id)
         THEN GroupFrom(gs, i + 1,
                        DictSet(d, uniprot_id, Append(DictGet(d, uniprot_id), GeneId(i))))
         ELSE GroupFrom(gs, i + 1, DictSet(d, uniprot_id, <<GeneId(i)>>))

(* ------------------------------ assembling ----------------------------- *)
\* line 129-130, the inner loop over protein_ids from position j on
RECURSIVE FanOut(_, _, _, _)
FanOut(protein_ids, j, mass, out) ==
    IF j > Len(protein_ids) THEN out
    ELSE FanOut(protein_ids, j + 1, mass, DictSet(out, protein_ids[j], mass))

\* AssembleFrom assigning the mass of the first resolved accession to every
\* protein id
RECURSIVE AssembleFromFirstMass(_, _, _, _)
AssembleFromFirstMass(masses, groups, k, acc) ==
    IF k > Len(masses) THEN acc
    ELSE LET uniprot_id == masses[k][1] IN
         IF ~DictHas(groups, uniprot_id)
         THEN AssembleFromFirstMass(masses, groups, k + 1,
                                    <<acc[1], Append(acc[2], uniprot_id)>>)
         ELSE AssembleFromFirstMass(masses, groups, k + 1,
                  <<FanOut(DictGet(groups, uniprot_id), 1, masses[1][2], acc[1]),
                    acc[2]>>)

\* lines 122-130, the loop over the resolved accessions from position k on;
\* returns <<protein_id_mass_mapping, accessions reported "No mass found">>
RECURSIVE AssembleFrom(_, _, _, _)
AssembleFrom(masses, groups, k, acc) ==
    IF k > Len(masses) THEN acc
    ELSE LET uniprot_id == masses[k][1] IN
         IF ~DictHas(groups, uniprot_id)
         THEN AssembleFrom(masses, groups, k + 1,
                           <<acc[1], Append(acc[2], uniprot_id)>>)
         ELSE AssembleFrom(masses, groups, k + 1,
                           <<FanOut(DictGet(groups, uniprot_id), 1, masses[k][2], acc[1]),
                             acc[2]>>)

(* ------------------------------ initial state -------------------------- *)
StartOfRun ==
    /\ pc = "group"
    /\ uniprot_id_protein_id_mapping = <<>>
    /\ uniprot_id_protein_mass_mapping = <<>>
    /\ protein_id_mass_mapping = <<>>
    /\ cache_files = {}
    /\ uniprot_ids = <<>>
    /\ idx = 0
    /\ events = <<>>

Init ==
    /\ genes \in GeneRecords
    /\ remote \in Services
    /\ cache \in HealthyCaches
    /\ outfile = <<>>
    /\ StartOfRun
    /\ cache0 = cache
    /\ prev = NoRun
    /\ changed = FALSE

(* ------------------------------ steps of a run ------------------------- *)
\* lines 55-71
Group ==
    /\ pc = "group"
    /\ uniprot_id_protein_id_mapping' = GroupFrom(genes, 1, <<>>)
    /\ pc' = "open"
    /\ UNCHANGED <<env, cache, outfile, uniprot_id_protein_mass_mapping,
                   protein_id_mass_mapping, cache_files, uniprot_ids, idx,
                   events, cache0, prev>>

\* a dict of the masses of the cache files named in the set S
RECURSIVE LoadAll(_, _)
LoadAll(S, c) ==
    IF S = {} THEN <<>>
    ELSE LET a == CHOOSE x \in S : TRUE IN
         <<<<a, pickle_load(c[a])>>>> \o LoadAll(S \ {a}, c)

\* OpenCache that loads every file of the cache folder into the mass mapping
OpenCachePreloaded ==
    /\ pc = "open"
    /\ uniprot_id_protein_mass_mapping' = LoadAll(get_files(cache), cache)
    /\ cache_files' = get_files(cache)
    /\ uniprot_ids' = DictKeys(uniprot_id_protein_id_mapping)
    /\ idx' = 1
    /\ pc' = "loop"
    /\ UNCHANGED <<env, cache, outfile, uniprot_id_protein_id_mapping,
                   protein_id_mass_mapping, events, cache0, prev>>

\* OpenCache that takes one accession per annotated gene record instead of
\* the keys of the grouping
OpenCachePerGene ==
    /\ pc = "open"
    /\ uniprot_id_protein_mass_mapping' = <<>>
    /\ cache_files' = get_files(cache)
    /\ uniprot_ids' =
           LET annotated == SelectSeq(genes, LAMBDA g : g # NoAnnotation) IN
           [i \in 1..Len(annotated) |-> annotated[i][1]]
    /\ idx' = 1
    /\ pc' = "loop"
    /\ UNCHANGED <<env, cache, outfile, uniprot_id_protein_id_mapping,
                   protein_id_mass_mapping, events, cache0, prev>>

\* OpenCache that takes the keys of the grouping in reverse order
OpenCacheReversed ==
    /\ pc = "open"
    /\ uniprot_id_protein_mass_mapping' = <<>>
    /\ cache_files' = get_files(cache)
    /\ uniprot_ids' =
           LET keys == DictKeys(uniprot_id_protein_id_mapping) IN
           [i \in 1..Len(keys) |-> keys[Len(keys) + 1 - i]]
    /\ idx' = 1
    /\ pc' = "loop"
    /\ UNCHANGED <<env, cache, outfile, uniprot_id_protein_id_mapping,
                   protein_id_mass_mapping, events, cache0, prev>>

\* OpenCache that does not list the cache folder
OpenCacheNoListing ==
    /\ pc = "open"
    /\ uniprot_id_protein_mass_mapping' = <<>>
    /\ cache_files' = {}
    /\ uniprot_ids' = DictKeys(uniprot_id_protein_id_mapping)
    /\ idx' = 1
    /\ pc' = "loop"
    /\ UNCHANGED <<env, cache, outfile, uniprot_id_protein_id_mapping,
                   protein_id_mass_mapping, events, cache0, prev>>

\* lines 73-85
OpenCache ==
    /\ pc = "open"
    /\ uniprot_id_protein_mass_mapping' = <<>>
    /\ cache_files' = get_files(cache)
    /\ uniprot_ids' = DictKeys(uniprot_id_protein_id_mapping)
    /\ idx' = 1
    /\ pc' = "loop"
    /\ UNCHANGED <<env, cache, outfile, uniprot_id_protein_id_mapping,
                   protein_id_mass_mapping, events, cache0, prev>>

\* CacheHit that pauses like an uncached accession does before it continues
CacheHitThrottled ==
    /\ pc = "loop"
    /\ idx <= Len(uniprot_ids)
    /\ LET uniprot_id == uniprot_ids[idx] IN
        /\ uniprot_id \in cache_files
        /\ cache[uniprot_id] # Corrupt
        /\ uniprot_id_protein_mass_mapping' =
               DictSet(uniprot_id_protein_mass_mapping, uniprot_id,
                       pickle_load(cache[uniprot_id]))
        /\ events' = events \o <<<<"load", uniprot_id>>, <<"sleep", uniprot_id>>>>
    /\ idx' = idx + 1
    /\ UNCHANGED <<env, cache, outfile, pc, uniprot_id_protein_id_mapping,
                   protein_id_mass_mapping, cache_files, uniprot_ids, cache0, prev>>

\* lines 86-94: the accession is cached, load and continue
CacheHit ==
    /\ pc = "loop"
    /\ idx <= Len(uniprot_ids)
    /\ LET uniprot_id == uniprot_ids[idx] IN
        /\ uniprot_id \in cache_files
        /\ cache[uniprot_id] # Corrupt
        /\ uniprot_id_protein_mass_mapping' =
               DictSet(uniprot_id_protein_mass_mapping, uniprot_id,
                       pickle_load(cache[uniprot_id]))
        /\ events' = Append(events, <<"load", uniprot_id>>)
    /\ idx' = idx + 1
    /\ UNCHANGED <<env, cache, outfile, pc, uniprot_id_protein_id_mapping,
                   protein_id_mass_mapping, cache_files, uniprot_ids, cache0, prev>>

\* Fetch without the try block: a failed lookup raises out of the function
FetchNoTry ==
    /\ pc = "loop"
    /\ idx <= Len(uniprot_ids)
    /\ \E uniprot_response \in ResponsesFor(remote[uniprot_ids[idx]]) :
       LET uniprot_id == uniprot_ids[idx]
           got == TryFetch(uniprot_response) IN
        /\ uniprot_id \notin cache_files
        /\ uniprot_id_protein_mass_mapping' =
               IF got = <<>> THEN uniprot_id_protein_mass_mapping
               ELSE DictSet(uniprot_id_protein_mass_mapping, uniprot_id, got[1])
        /\ events' = IF got = <<>>
                     THEN events \o <<<<"get", uniprot_id>>, <<"raise", "requests">>>>
                     ELSE Append(events, <<"get", uniprot_id>>)
        /\ pc' = IF got = <<>> THEN "aborted" ELSE "persist"
    /\ UNCHANGED <<env, cache, outfile, uniprot_id_protein_id_mapping,
                   protein_id_mass_mapping, cache_files, uniprot_ids, idx, cache0, prev>>

\* Fetch that creates the accession's cache file before it asks UniProt and
\* leaves filling it to the persisting step
FetchCreatesFile ==
    /\ pc = "loop"
    /\ idx <= Len(uniprot_ids)
    /\ \E uniprot_response \in ResponsesFor(remote[uniprot_ids[idx]]) :
       LET uniprot_id == uniprot_ids[idx]
           got == TryFetch(uniprot_response) IN
        /\ uniprot_id \notin cache_files
        /\ uniprot_id_protein_mass_mapping' =
               IF got = <<>> THEN uniprot_id_protein_mass_mapping
               ELSE DictSet(uniprot_id_protein_mass_mapping, uniprot_id, got[1])
        /\ events' = Append(events, <<"get", uniprot_id>>)
        /\ cache' = [cache EXCEPT ![uniprot_id] = Corrupt]
    /\ pc' = "persist"
    /\ UNCHANGED <<env, outfile, uniprot_id_protein_id_mapping,
                   protein_id_mass_mapping, cache_files, uniprot_ids, idx, cache0, prev>>

\* lines 96-112: the accession is not cached, ask UniProt
Fetch ==
    /\ pc = "loop"
    /\ idx <= Len(uniprot_ids)
    /\ \E uniprot_response \in ResponsesFor(remote[uniprot_ids[idx]]) :
       LET uniprot_id == uniprot_ids[idx]
           got == TryFetch(uniprot_response) IN
        /\ uniprot_id \notin cache_files
        /\ uniprot_id_protein_mass_mapping' =
               IF got = <<>> THEN uniprot_id_protein_mass_mapping
               ELSE DictSet(uniprot_id_protein_mass_mapping, uniprot_id, got[1])
        /\ events' = Append(events, <<"get", uniprot_id>>)
    /\ pc' = "persist"
    /\ UNCHANGED <<env, cache, outfile, uniprot_id_protein_id_mapping,
                   protein_id_mass_mapping, cache_files, uniprot_ids, idx, cache0, prev>>

\* Persist without the test of line 114: a failed lookup is cached as mass 0
PersistAlways ==
    /\ pc = "persist"
    /\ LET uniprot_id == uniprot_ids[idx] IN
        /\ cache' = [cache EXCEPT ![uniprot_id] =
               pickle_write(IF DictHas(uniprot_id_protein_mass_mapping, uniprot_id)
                            THEN DictGet(uniprot_id_protein_mass_mapping, uniprot_id)
                            ELSE 0)]
        /\ events' = Append(events, <<"write", uniprot_id>>)
    /\ pc' = "sleep"
    /\ UNCHANGED <<env, outfile, locals, cache0, prev>>

\* Persist writing the mass of the first resolved accession instead of the
\* mass of uniprot_id
PersistStaleMass ==
    /\ pc = "persist"
    /\ LET uniprot_id == uniprot_ids[idx] IN
        IF DictHas(uniprot_id_protein_mass_mapping, uniprot_id)
        THEN /\ cache' = [cache EXCEPT ![uniprot_id] =
                     pickle_write(uniprot_id_protein_mass_mapping[1][2])]
             /\ events' = Append(events, <<"write", uniprot_id>>)
        ELSE UNCHANGED <<cache, events>>
    /\ pc' = "sleep"
    /\ UNCHANGED <<env, outfile, locals, cache0, prev>>

\* Persist that leaves the cache alone: the masses are kept in memory only
PersistSkipped ==
    /\ pc = "persist"
    /\ pc' = "sleep"
    /\ UNCHANGED <<env, cache, events, outfile, locals, cache0, prev>>

\* lines 114-116
Persist ==
    /\ pc = "persist"
    /\ LET uniprot_id == uniprot_ids[idx] IN
        IF DictHas(uniprot_id_protein_mass_mapping, uniprot_id)
        THEN /\ cache' = [cache EXCEPT ![uniprot_id] =
                     pickle_write(DictGet(uniprot_id_protein_mass_mapping, uniprot_id))]
             /\ events' = Append(events, <<"write", uniprot_id>>)
        ELSE UNCHANGED <<cache, events>>
    /\ pc' = "sleep"
    /\ UNCHANGED <<env, outfile, locals, cache0, prev>>

\* Sleep placed under the test of line 114: no pause after a failed lookup
SleepOnSuccess ==
    /\ pc = "sleep"
    /\ events' = IF DictHas(uniprot_id_protein_mass_mapping, uniprot_ids[idx])
                 THEN Append(events, <<"sleep", uniprot_ids[idx]>>)
                 ELSE events
    /\ idx' = idx + 1
    /\ pc' = "loop"
    /\ UNCHANGED <<env, cache, outfile, uniprot_id_protein_id_mapping,
                   uniprot_id_protein_mass_mapping, protein_id_mass_mapping,
                   cache_files, uniprot_ids, cache0, prev>>

\* lines 118-119
Sleep ==
    /\ pc = "sleep"
    /\ events' = Append(events, <<"sleep", uniprot_ids[idx]>>)
    /\ idx' = idx + 1
    /\ pc' = "loop"
    /\ UNCHANGED <<env, cache, outfile, uniprot_id_protein_id_mapping,
                   uniprot_id_protein_mass_mapping, protein_id_mass_mapping,
                   cache_files, uniprot_ids, cache0, prev>>

\* lines 121-130
Assemble ==
    /\ pc = "loop"
    /\ idx > Len(uniprot_ids)
    /\ LET res == AssembleFrom(uniprot_id_protein_mass_mapping,
                               uniprot_id_protein_id_mapping, 1, <<<<>>, <<>>>>) IN
        /\ protein_id_mass_mapping' = res[1]
        /\ events' = events \o [i \in 1..Len(res[2]) |-> <<"nomass", res[2][i]>>]
    /\ pc' = "write"
    /\ UNCHANGED <<env, cache, outfile, uniprot_id_protein_id_mapping,
                   uniprot_id_protein_mass_mapping, cache_files, uniprot_ids,
                   idx, cache0, prev>>

\* WriteOutput that writes no file when the mapping is empty
WriteOutputIfAny ==
    /\ pc = "write"
    /\ IF protein_id_mass_mapping = <<>>
       THEN UNCHANGED <<outfile, events>>
       ELSE /\ outfile' = <<protein_id_mass_mapping>>
            /\ events' = Append(events, <<"json", "out">>)
    /\ pc' = "done"
    /\ UNCHANGED <<env, cache, locals, cache0, prev>>

\* lines 132-134
WriteOutput ==
    /\ pc = "write"
    /\ outfile' = <<protein_id_mass_mapping>>
    /\ events' = Append(events, <<"json", "out">>)
    /\ pc' = "done"
    /\ UNCHANGED <<env, cache, locals, cache0, prev>>

(* ------------------------------ environment ---------------------------- *)
\* the process is terminated between two steps; its memory is gone
Kill ==
    /\ pc \notin Finished
    /\ pc' = "killed"
    /\ uniprot_id_protein_id_mapping' = <<>>
    /\ uniprot_id_protein_mass_mapping' = <<>>
    /\ protein_id_mass_mapping' = <<>>
    /\ cache_files' = {}
    /\ uniprot_ids' = <<>>
    /\ idx' = 0
    /\ UNCHANGED <<env, cache, outfile, events, cache0, prev>>

\* the workflow is started again on the same model
Rerun ==
    /\ pc \in Finished
    /\ prev' = [status |-> pc, cache0 |-> cache0,
                out |-> IF pc = "done" THEN outfile ELSE <<>>,
                gets |-> Cardinality({i \in 1..Len(events) : events[i][1] = "get"})]
    /\ cache0' = cache
    /\ pc' = "group"
    /\ uniprot_id_protein_id_mapping' = <<>>
    /\ uniprot_id_protein_mass_mapping' = <<>>
    /\ protein_id_mass_mapping' = <<>>
    /\ cache_files' = {}
    /\ uniprot_ids' = <<>>
    /\ idx' = 0
    /\ events' = <<>>
    /\ changed' = FALSE
    /\ UNCHANGED <<genes, remote, cache, outfile>>

\* before the new run asks anything, the service has changed its answer
\* for one accession
ServiceChange ==
    /\ pc = "group"
    /\ prev.status # "none"
    /\ \E a \in Accessions, r \in Answers :
        /\ remote[a] # r
        /\ remote' = [remote EXCEPT ![a] = r]
    /\ changed' = TRUE
    /\ UNCHANGED <<genes, cache, outfile, pc, locals, events, cache0, prev>>

(* ------------------------------ failing file system -------------------- *)
\* lines 80-81: ensure_folder_existence raises, the cache folder cannot be
\* created
EnsureFolderFails ==
    /\ pc = "open"
    /\ events' = Append(events, <<"raise", "ensure_folder_existence">>)
    /\ pc' = "aborted"
    /\ UNCHANGED <<env, cache, outfile, locals, cache0, prev>>

\* LoadCorrupt with the failed read swallowed: the loop goes on with the next
\* accession
LoadCorruptSkipped ==
    /\ pc = "loop"
    /\ idx <= Len(uniprot_ids)
    /\ uniprot_ids[idx] \in cache_files
    /\ cache[uniprot_ids[idx]] = Corrupt
    /\ events' = Append(events, <<"raise", "pickle_load">>)
    /\ idx' = idx + 1
    /\ UNCHANGED <<env, cache, outfile, pc, uniprot_id_protein_id_mapping,
                   uniprot_id_protein_mass_mapping, protein_id_mass_mapping,
                   cache_files, uniprot_ids, cache0, prev>>

\* line 92: pickle_load raises on a cache file it cannot deserialize; the
\* call is outside the try block
LoadCorrupt ==
    /\ pc = "loop"
    /\ idx <= Len(uniprot_ids)
    /\ uniprot_ids[idx] \in cache_files
    /\ cache[uniprot_ids[idx]] = Corrupt
    /\ events' = Append(events, <<"raise", "pickle_load">>)
    /\ pc' = "aborted"
    /\ UNCHANGED <<env, cache, outfile, locals, cache0, prev>>

\* line 116: pickle_write raises; the call is outside the try block. The file
\* is either not created or left with a truncated content
PersistFails ==
    /\ pc = "persist"
    /\ DictHas(uniprot_id_protein_mass_mapping, uniprot_ids[idx])
    /\ \/ cache' = cache
       \/ cache' = [cache EXCEPT ![uniprot_ids[idx]] = Corrupt]
    /\ events' = Append(events, <<"raise", "pickle_write">>)
    /\ pc' = "aborted"
    /\ UNCHANGED <<env, outfile, locals, cache0, prev>>

\* line 134: json_write raises
WriteOutputFails ==
    /\ pc = "write"
    /\ events' = Append(events, <<"raise", "json_write">>)
    /\ pc' = "aborted"
    /\ UNCHANGED <<env, cache, outfile, locals, cache0, prev>>

Step == Group \/ OpenCache \/ CacheHit \/ Fetch \/ Persist \/ Sleep
            \/ Assemble \/ WriteOutput

\* the workflow on a working file system, terminated and re-run at will
Next == Group \/ OpenCache \/ CacheHit \/ Fetch \/ Persist \/ Sleep
            \/ Assemble \/ WriteOutput \/ Kill \/ Rerun \/ ServiceChange

Spec == Init /\ [][Next]_vars

\* one run that is left alone: python runs the function to its end
FairSpec == Init /\ [][Step]_vars /\ WF_vars(Step)

\* the workflow on a file system whose operations may fail and whose cache
\* folder may hold files that are no pickles
InitFaulty ==
    /\ genes \in GeneRecords
    /\ remote \in Services
    /\ cache \in AnyCaches
    /\ outfile = <<>>
    /\ StartOfRun
    /\ cache0 = cache
    /\ prev = NoRun
    /\ changed = FALSE

NextFaulty == Group \/ OpenCache \/ CacheHit \/ Fetch \/ Persist \/ Sleep
                  \/ Assemble \/ WriteOutput \/ Kill \/ Rerun
                  \/ EnsureFolderFails \/ LoadCorrupt \/ PersistFails
                  \/ WriteOutputFails

SpecFaulty == InitFaulty /\ [][NextFaulty]_vars

(* ------------------------------ vocabulary of the properties ---------- *)
\* number of events of a kind in this run
Count(kind) == Cardinality({i \in 1..Len(events) : events[i][1] = kind})
Did(kind, a) == \E i \in 1..Len(events) : events[i] = <<kind, a>>
TimesDid(kind, a) == Cardinality({i \in 1..Len(events) : events[i] = <<kind, a>>})
\* the accessions annotated on some gene record, and the gene records of one
GroupAccessions == {a \in Accessions : \E g \in GeneIds : genes[g] = Annotated(a)}
IdsOf(a) == {GeneId(g) : g \in {h \in GeneIds : genes[h] = Annotated(a)}}
\* what the service has for an accession: <<m>> a mass, <<>> a failure
Succeeds(a) == remote[a] # <<>>
Answer(a) == remote[a]
\* the accessions with a cache file when the run started
CachedAtStart == {a \in Accessions : cache0[a] # Absent}
\* ResolvedMass and the OutputMapping that was written
ResolvedMass == uniprot_id_protein_mass_mapping
OutputMapping == outfile[1]
DictToFun(d) == [k \in DictKeySet(d) |-> DictGet(d, k)]

(* ------------------------------ C1 ------------------------------------- *)
\* C1: once the run has completed, every key of the written OutputMapping is
\* the id of a gene record that carries a uniprot annotation whose accession is
\* in ResolvedMass, and its value is the mass resolved for that accession: the
\* cached mass if the accession was cached at the start, the mass the service
\* returned otherwise.
C1_OutputKeysResolved ==
    pc = "done" =>
        \A k \in 1..Len(OutputMapping) :
            LET g == OutputMapping[k][1]
                m == OutputMapping[k][2] IN
            /\ g \in GeneIds
            /\ genes[g] # NoAnnotation
            /\ DictHas(ResolvedMass, genes[g][1])
            /\ m = DictGet(ResolvedMass, genes[g][1])
            /\ IF genes[g][1] \in CachedAtStart
               THEN cache0[genes[g][1]] = Pickled(m)
               ELSE Answer(genes[g][1]) = <<m>>

\* a completed run over a record without annotation, a record resolved from
\* the cache and a record resolved by the service
C1_Witness ==
    /\ pc = "done"
    /\ \E g1, g2, g3 \in GeneIds :
        /\ genes[g1] = NoAnnotation
        /\ DictHas(OutputMapping, g2) /\ genes[g2][1] \in CachedAtStart
        /\ DictHas(OutputMapping, g3) /\ genes[g3][1] \notin CachedAtStart

(* ------------------------------ C2 ------------------------------------- *)
\* C2: once the run has completed, for every accession in ResolvedMass with
\* mass m, every gene record annotated with that accession is a key of
\* OutputMapping with value m.
C2_FanOut ==
    pc = "done" =>
        \A k \in 1..Len(ResolvedMass) :
            \A g \in IdsOf(ResolvedMass[k][1]) :
                /\ DictHas(OutputMapping, g)
                /\ DictGet(OutputMapping, g) = ResolvedMass[k][2]

\* a completed run in which a resolved accession is shared by two records
C2_Witness ==
    /\ pc = "done"
    /\ \E k \in 1..Len(ResolvedMass) : Cardinality(IdsOf(ResolvedMass[k][1])) >= 2

(* ------------------------------ C3 ------------------------------------- *)
FailsFor(a) == a \in GroupAccessions \ CachedAtStart /\ ~Succeeds(a)
SucceedsFor(b) == b \in GroupAccessions \ CachedAtStart /\ Succeeds(b)
Contained ==
    \A a, b \in Accessions :
        FailsFor(a) /\ SucceedsFor(b) =>
            /\ \A g \in IdsOf(b) : /\ DictHas(OutputMapping, g)
                                   /\ <<DictGet(OutputMapping, g)>> = Answer(b)
            /\ \A g \in IdsOf(a) : ~DictHas(OutputMapping, g)

\* C3: when the lookup fails for an uncached accession A and succeeds for an
\* uncached accession B, the run completes normally and the OutputMapping it
\* writes has an entry for every record of B and none for the records of A.
C3_PartialFailureContained ==
    (\E a, b \in Accessions : FailsFor(a) /\ SucceedsFor(b))
        ~> (pc = "done" /\ outfile # <<>> /\ Contained)

\* a completed run in which the first accession failed and the second, asked
\* after it, succeeded
C3_Witness ==
    /\ pc = "done"
    /\ Len(uniprot_ids) = 2
    /\ FailsFor(uniprot_ids[1])
    /\ SucceedsFor(uniprot_ids[2])
    /\ DictKeySet(OutputMapping) = IdsOf(uniprot_ids[2])

(* ------------------------------ C4 ------------------------------------- *)
\* C4: if every accession of AccessionGroup has a cache entry when the run
\* starts, the run issues no remote lookup and performs no throttle delay, and
\* after the resolver loop every accession's resolved mass is the cached value.
C4_FullCacheNoRemote ==
    GroupAccessions \subseteq CachedAtStart =>
        /\ Count("get") = 0
        /\ Count("sleep") = 0
        /\ pc \in {"write", "done"} =>
               \A a \in GroupAccessions :
                   /\ DictHas(ResolvedMass, a)
                   /\ Pickled(DictGet(ResolvedMass, a)) = cache0[a]

\* a completed run over two distinct accessions, both cached at the start
C4_Witness ==
    /\ pc = "done"
    /\ Cardinality(GroupAccessions) = 2
    /\ GroupAccessions \subseteq CachedAtStart
    /\ Count("load") = 2

(* ------------------------------ C5 ------------------------------------- *)
EmptyCache == [a \in Accessions |-> Absent]
\* this run completed, it directly follows a completed run that started from
\* an empty cache, and the service answers as it did then
SecondOfTwoRuns ==
    /\ pc = "done"
    /\ prev.status = "done"
    /\ prev.cache0 = EmptyCache
    /\ ~changed

\* C5: with a deterministic service, the second of two runs from an empty
\* cache writes the same OutputMapping as the first, and the cache after the
\* second run is the cache after the first run.
C5_Idempotent ==
    SecondOfTwoRuns =>
        /\ outfile = prev.out
        /\ DictToFun(OutputMapping) = DictToFun(prev.out[1])
        /\ cache = cache0

\* the second of two such runs, which loaded one accession from the cache the
\* first run filled and asked again for one that had failed
C5_Witness ==
    /\ SecondOfTwoRuns
    /\ Len(OutputMapping) >= 1
    /\ Count("load") >= 1
    /\ Count("get") >= 1

(* ------------------------------ C6 ------------------------------------- *)
Processed(a) == Did("load", a) \/ Did("get", a)
\* C6: the run terminates, and it writes the output file exactly once, as its
\* last act, after every accession was processed, whatever the lookups did.
C6_TerminatesAndWritesOnce ==
    /\ <>(pc = "done")
    /\ [](/\ Count("json") <= 1
          /\ Count("json") = 1 =>
                 /\ pc = "done"
                 /\ events[Len(events)] = <<"json", "out">>
                 /\ \A a \in GroupAccessions : Processed(a)
          /\ pc = "done" =>
                 /\ Count("json") = 1
                 /\ outfile = <<protein_id_mass_mapping>>)

\* a completed run in which two lookups were made and both failed: the file
\* holds the empty mapping
C6_Witness ==
    /\ pc = "done"
    /\ Count("get") = 2
    /\ \A a \in GroupAccessions : ~Succeeds(a)
    /\ outfile = <<<<>>>>

(* ------------------------------ C7 ------------------------------------- *)
\* within this run each accession is written to the cache at most once, and
\* only if it had no entry when the run started
WritesOnce ==
    \A a \in Accessions :
        /\ TimesDid("write", a) <= 1
        /\ Did("write", a) => cache0[a] = Absent

\* C7: across any sequence of runs no step changes or deletes a cache entry
\* that exists, and within a run an accession is written at most once and only
\* if it had no entry when the run started.
C7_CacheAppendOnly ==
    [][/\ \A a \in Accessions : cache[a] # Absent => cache'[a] = cache[a]
       /\ WritesOnce']_vars

\* a later run that loaded a cached accession and wrote another one
C7_Witness ==
    /\ prev.status # "none"
    /\ \E a, b \in Accessions : Did("load", a) /\ Did("write", b)

(* ------------------------------ C8 ------------------------------------- *)
\* every cache entry is an entry from before the run, unchanged, or the mass
\* the service returned for that accession during the run
CacheConsistent ==
    \A a \in Accessions :
        cache[a] # Absent =>
            \/ cache[a] = cache0[a]
            \/ /\ cache0[a] = Absent
               /\ Did("get", a)
               /\ Succeeds(a)
               /\ cache[a] = Pickled(Answer(a)[1])

\* the accessions the resolver loop has gone past
Passed ==
    IF pc \in {"loop", "persist", "sleep"}
    THEN {uniprot_ids[i] : i \in 1..(idx - 1)}
    ELSE IF pc \in {"write", "done"} THEN GroupAccessions ELSE {}

\* C8: at every point between two steps, hence whenever the process is
\* terminated, the cache is consistent, and the run that follows a terminated
\* run serves every entry it finds as a cache hit.
C8_KillLeavesCacheConsistent ==
    /\ CacheConsistent
    /\ prev.status = "killed" =>
           \A a \in CachedAtStart :
               /\ ~Did("get", a)
               /\ a \in Passed \cap GroupAccessions =>
                      /\ Did("load", a)
                      /\ DictHas(ResolvedMass, a)
                      /\ Pickled(DictGet(ResolvedMass, a)) = cache0[a]

\* the run after a terminated run loads an entry the terminated run had written
C8_Witness ==
    /\ prev.status = "killed"
    /\ \E a \in Accessions : prev.cache0[a] = Absent /\ Did("load", a)

(* ------------------------------ C9 ------------------------------------- *)
\* the lookups and the OutputMapping of an uninterrupted run from cache c
Misses(c) == Cardinality({a \in GroupAccessions : c[a] = Absent})
RefOutput(c) ==
    [g \in {h \in GeneIds : /\ genes[h] # NoAnnotation
                             /\ (c[genes[h][1]] # Absent \/ Succeeds(genes[h][1]))}
        |-> IF c[genes[g][1]] # Absent THEN c[genes[g][1]][2]
            ELSE Answer(genes[g][1])[1]]
\* this run completed, it directly follows a terminated run, and the service
\* answers as it did then
RerunAfterKill ==
    /\ pc = "done"
    /\ prev.status = "killed"
    /\ ~changed

\* C9 as stated: the re-run after a run that was interrupted after it had
\* started looking accessions up writes the OutputMapping of an uninterrupted
\* run and issues strictly fewer lookups than a run from the cache that
\* preceded the interrupted run.
C9_StrictlyCheaper ==
    RerunAfterKill /\ prev.gets >= 1 =>
        /\ DictToFun(OutputMapping) = RefOutput(prev.cache0)
        /\ Count("get") < Misses(prev.cache0)

\* C9 amended: every completed run from cache c issues Misses(c) lookups and
\* writes RefOutput(c); the re-run after an interrupted run writes the
\* OutputMapping of an uninterrupted run, issues no more lookups than a run
\* from the cache that preceded the interrupted run, and strictly fewer exactly
\* when the interrupted run had written a cache entry.
C9_RerunNeverDearer ==
    /\ pc = "done" =>
           /\ Count("get") = Misses(cache0)
           /\ DictToFun(OutputMapping) = RefOutput(cache0)
    /\ RerunAfterKill =>
           /\ DictToFun(OutputMapping) = RefOutput(prev.cache0)
           /\ Count("get") <= Misses(prev.cache0)
           /\ (Count("get") < Misses(prev.cache0)) <=> (cache0 # prev.cache0)

\* a re-run that found an entry of the interrupted run and still had to ask
\* for another accession
C9_Witness ==
    /\ RerunAfterKill
    /\ prev.gets >= 1
    /\ cache0 # prev.cache0
    /\ Count("get") >= 1
    /\ Len(OutputMapping) >= 2

(* ------------------------------ C10 ------------------------------------ *)
Raised(what) == pc = "aborted" /\ events[Len(events)] = <<"raise", what>>

\* C10 as stated: a run aborts only because the cache folder cannot be
\* created or the output file cannot be written.
C10_OnlyFolderAndOutputAbort ==
    pc = "aborted" => Raised("ensure_folder_existence") \/ Raised("json_write")

\* C10 amended: a run aborts only because the cache folder cannot be created,
\* the output file cannot be written, a cache record cannot be read or a cache
\* record cannot be written; an aborted run has written no output file; a
\* failed lookup leaves the run going.
C10_AbortConditions ==
    /\ pc = "aborted" =>
           /\ \/ Raised("ensure_folder_existence")
              \/ Raised("json_write")
              \/ (Raised("pickle_load") /\ cache[uniprot_ids[idx]] = Corrupt)
              \/ (Raised("pickle_write") /\ Succeeds(uniprot_ids[idx]))
           /\ Count("json") = 0
    /\ \A a \in Accessions :
           Did("get", a) /\ ~Succeeds(a) /\ pc = "aborted" =>
               events[Len(events)] # <<"get", a>>

\* a run that went on after a failed lookup and aborted on the corrupt cache
\* record of the next accession
C10_Witness ==
    /\ Raised("pickle_load")
    /\ \E a \in Accessions : Did("get", a) /\ ~Succeeds(a)

(* ------------------------------ C11 ------------------------------------ *)
\* the accessions of AccessionGroup whose cache record was corrupt at the start
CorruptAtStart == {a \in GroupAccessions : cache0[a] = Corrupt}
Touched(a) == Did("load", a) \/ Did("get", a) \/ Did("write", a) \/ Did("sleep", a)

\* C11: a corrupt cache record of an accession of AccessionGroup is fatal for
\* the run: the run never gets past that accession, the record is neither
\* loaded, looked up nor overwritten, no output file is written, and when the
\* read has failed no later accession has been processed.
C11_CacheCorruptFatal ==
    /\ \A a \in CorruptAtStart :
           /\ cache[a] = Corrupt
           /\ ~Touched(a)
           /\ a \notin Passed
           /\ pc \notin {"write", "done"}
           /\ Count("json") = 0
    /\ Raised("pickle_load") =>
           /\ uniprot_ids[idx] \in CorruptAtStart
           /\ Count("json") = 0
           /\ \A j \in idx..Len(uniprot_ids) : ~Touched(uniprot_ids[j])

\* the read of the first accession's corrupt record has failed and the second
\* accession, which the service has a mass for, was never asked for
C11_Witness ==
    /\ Raised("pickle_load")
    /\ Len(uniprot_ids) = 2
    /\ idx = 1
    /\ Succeeds(uniprot_ids[2])
    /\ cache[uniprot_ids[2]] = Absent

(* ------------------------------ C12 ------------------------------------ *)
\* C12: every delay directly follows the lookup of its accession (and the
\* cache write of its mass, if any); an accession is delayed at most once and a
\* cached one never; between two lookups there is the delay of the first; and
\* whenever the resolver is between accessions or past the loop, the run has
\* performed as many delays as lookups, one per looked-up accession.
C12_Throttle ==
    /\ \A i \in 1..Len(events) :
           events[i][1] = "sleep" =>
               \E j \in 1..(i - 1) :
                   /\ events[j] = <<"get", events[i][2]>>
                   /\ \A k \in (j + 1)..(i - 1) : events[k] = <<"write", events[i][2]>>
    /\ \A a \in Accessions :
           /\ TimesDid("sleep", a) <= 1
           /\ Did("load", a) => ~Did("sleep", a)
    /\ \A i, j \in 1..Len(events) :
           i < j /\ events[i][1] = "get" /\ events[j][1] = "get" =>
               \E k \in (i + 1)..(j - 1) : events[k] = <<"sleep", events[i][2]>>
    /\ pc \in {"loop", "write", "done"} =>
           /\ Count("sleep") = Count("get")
           /\ \A a \in Accessions : Did("get", a) <=> Did("sleep", a)

\* a completed run that looked two accessions up, the first in vain, the
\* second with success
C12_Witness ==
    /\ pc = "done"
    /\ Len(uniprot_ids) = 2
    /\ Did("get", uniprot_ids[1]) /\ ~Succeeds(uniprot_ids[1])
    /\ Did("get", uniprot_ids[2]) /\ Succeeds(uniprot_ids[2])
    /\ Count("sleep") = 2

(* ------------------------------ C13 ------------------------------------ *)
\* the resolver is at an uncached accession the service has nothing for: about
\* to look it up, or between the failed lookup and the next accession
AtFailingLookup ==
    /\ pc \in {"loop", "persist", "sleep"}
    /\ idx <= Len(uniprot_ids)
    /\ uniprot_ids[idx] \notin cache_files
    /\ ~Succeeds(uniprot_ids[idx])

\* an accession whose lookup failed in this run has no entry in ResolvedMass
\* and none in the cache
FailedLeftNoEntry ==
    \A a \in Accessions :
        Did("get", a) /\ ~Succeeds(a) =>
            /\ ~DictHas(ResolvedMass, a)
            /\ cache[a] = Absent
            /\ ~Did("write", a)

\* C13: the steps of a failed lookup, whatever the manner of the failure,
\* change neither ResolvedMass nor the cache, add no entry for the accession to
\* either, and lead on to the next accession.
C13_FailedLookupNoEffect ==
    [][/\ AtFailingLookup /\ pc' # "killed" =>
              /\ uniprot_id_protein_mass_mapping' = uniprot_id_protein_mass_mapping
              /\ cache' = cache
              /\ pc = "loop" => pc' = "persist" /\ idx' = idx
              /\ pc = "persist" => pc' = "sleep" /\ idx' = idx
              /\ pc = "sleep" => pc' = "loop" /\ idx' = idx + 1
       /\ FailedLeftNoEntry']_vars

\* a completed run whose first lookup failed and which then went on to load
\* the second accession from the cache
C13_Witness ==
    /\ pc = "done"
    /\ Len(uniprot_ids) = 2
    /\ Did("get", uniprot_ids[1]) /\ ~Succeeds(uniprot_ids[1])
    /\ Did("load", uniprot_ids[2])
    /\ DictKeySet(ResolvedMass) = {uniprot_ids[2]}
    /\ cache = cache0

(* ------------------------------ C14 ------------------------------------ *)
\* C14: when the resolver is about to pause, is between two accessions or is
\* past the loop, every accession in ResolvedMass has a cache entry holding
\* its ResolvedMass value; and the cache write of a looked-up mass is the very
\* next thing the run does after the lookup, before the delay.
C14_PersistImmediately ==
    /\ pc \in {"sleep", "loop", "write", "done"} =>
           \A k \in 1..Len(ResolvedMass) :
               cache[ResolvedMass[k][1]] = Pickled(ResolvedMass[k][2])
    /\ \A i \in 1..Len(events) :
           events[i][1] = "get" /\ Succeeds(events[i][2]) =>
               IF i < Len(events)
               THEN events[i + 1] = <<"write", events[i][2]>>
               ELSE pc \in {"persist", "killed"}

\* the resolver stands between the first accession, whose mass it has just
\* looked up and written, and the second
C14_Witness ==
    /\ pc = "loop"
    /\ Len(uniprot_ids) = 2
    /\ idx = 2
    /\ Did("write", uniprot_ids[1])
    /\ cache[uniprot_ids[1]] # cache0[uniprot_ids[1]]

(* ------------------------------ C15 ------------------------------------ *)
\* C15: once the mapping is assembled, each accession of AccessionGroup that is
\* missing from ResolvedMass has been reported by one "No mass found" message,
\* and none of its gene ids has an entry in the assembled mapping.
C15_UnresolvedReported ==
    pc \in {"write", "done"} =>
        \A a \in GroupAccessions :
            ~DictHas(ResolvedMass, a) =>
                /\ TimesDid("nomass", a) = 1
                /\ \A g \in IdsOf(a) : ~DictHas(protein_id_mass_mapping, g)

(* ------------------------------ C16 ------------------------------------ *)
\* C16: in a run each accession is looked up at most once, however many gene
\* records carry it and whether or not the lookup fails, and an accession with
\* a cache entry at the start of the run is not looked up at all.
C16_AtMostOneLookup ==
    \A a \in Accessions :
        /\ TimesDid("get", a) <= 1
        /\ a \in CachedAtStart => ~Did("get", a)

\* a completed run in which an accession carried by two gene records was looked
\* up once, in vain
C16_Witness ==
    /\ pc = "done"
    /\ \E a \in Accessions :
        /\ Cardinality(IdsOf(a)) >= 2
        /\ ~Succeeds(a)
        /\ TimesDid("get", a) = 1

(* ------------------------------ C17 ------------------------------------ *)
\* the first gene record that carries the accession
FirstGene(a) == CHOOSE g \in GeneIds :
    /\ genes[g] = Annotated(a)
    /\ \A h \in GeneIds : genes[h] = Annotated(a) => g <= h
\* the position in the run's events of the cache read or lookup of an accession
ProcessedAt(a) == CHOOSE i \in 1..Len(events) :
    events[i] = <<"load", a>> \/ events[i] = <<"get", a>>

\* C17: if accession X first appears in an earlier gene record than accession
\* Y, then Y is not processed before X: whenever Y's cache read or lookup has
\* happened, X's has happened before it.
C17_InsertionOrder ==
    \A x, y \in GroupAccessions :
        FirstGene(x) < FirstGene(y) /\ Processed(y) =>
            /\ Processed(x)
            /\ ProcessedAt(x) < ProcessedAt(y)

\* a completed run in which P2, carried by the first gene record, was processed
\* before P1
C17_Witness ==
    /\ pc = "done"
    /\ genes[1] = Annotated("P2")
    /\ Processed("P1")
    /\ ProcessedAt("P2") < ProcessedAt("P1")

C19_ResolvedWithinGroup ==
    /\ DictKeySet(ResolvedMass) \subseteq DictKeySet(uniprot_id_protein_id_mapping)
    /\ DictKeySet(ResolvedMass) \subseteq GroupAccessions
    /\ Count("nomass") = 0

\* a completed run with a resolved accession while the cache holds a record of
\* an accession that no gene record carries
C19_Witness ==
    /\ pc = "done"
    /\ Len(ResolvedMass) = 1
    /\ \E a \in CachedAtStart : a \notin GroupAccessions

(* ------------------------------ C20 ------------------------------------ *)
\* the cache a completed run leaves behind: the cache at its start plus the
\* returned mass of each accession of AccessionGroup that was absent then and
\* whose lookup succeeded
CacheAfterRun ==
    [a \in Accessions |->
        IF a \in GroupAccessions /\ cache0[a] = Absent /\ Succeeds(a)
        THEN Pickled(Answer(a)[1])
        ELSE cache0[a]]

\* C20: a completed run leaves exactly CacheAfterRun; a record of an accession
\* outside AccessionGroup is never read nor changed; and every gene record of
\* an accession cached at the start gets the cached mass in the output,
\* whatever the service has for it.
C20_CacheFrame ==
    /\ pc = "done" => cache = CacheAfterRun
    /\ \A a \in Accessions \ GroupAccessions :
           /\ cache[a] = cache0[a]
           /\ ~Touched(a)
    /\ pc = "done" =>
           \A a \in CachedAtStart :
               \A g \in IdsOf(a) :
                   /\ DictHas(OutputMapping, g)
                   /\ Pickled(DictGet(OutputMapping, g)) = cache0[a]

\* a completed run that kept the cached mass of one accession although the
\* service has another mass for it, and added the record of the other accession
C20_Witness ==
    /\ pc = "done"
    /\ \E a, b \in GroupAccessions :
        /\ a \in CachedAtStart
        /\ Succeeds(a)
        /\ cache0[a] # Pickled(Answer(a)[1])
        /\ cache0[b] = Absent
        /\ cache[b] # Absent

TypeOK ==
    /\ genes \in GeneRecords
    /\ remote \in Services
    /\ cache \in AnyCaches
    /\ cache0 \in AnyCaches
    /\ pc \in {"group", "open", "loop", "persist", "sleep", "write"} \cup Finished
    /\ cache_files \subseteq Accessions
    /\ idx \in 0..(MaxGenes + 1)
    /\ Len(outfile) <= 1
    /\ changed \in BOOLEAN
    /\ prev.status \in {"none"} \cup Finished
====
